---------------------------- MODULE Spec2Model ----------------------------
(***************************************************************************)
(* A model of bruin-ball (src/main-scene.js): the Body integrator, the     *)
(* fixed-step simulate() loop, Baseball.update_state and the per-frame     *)
(* display() progression logic.                                            *)
(*                                                                         *)
(* Numbers.  The program computes in floating point; the model computes    *)
(* in fixed point:                                                         *)
(*   time      in 1/TimeScale   of the program's number (dt = 1/20 is 5),  *)
(*   velocity  in 1/VelScale    (dt * -9.8 = -0.49 is -49),                *)
(*   length    in 1/LengthScale (one fixed step moves a body by exactly    *)
(*             its velocity: v/100 * 1/20 * 2000 = v).                     *)
(* Products the program rounds to a double are truncated to the grid.      *)
(***************************************************************************)
EXTENDS Integers, Sequences, FiniteSets, TLC

VARIABLES
    time_accumulator,   \* this.time_accumulator                    (time units)
    t,                  \* this.t, saturating at MaxClock * dt      (time units)
    steps_taken,        \* this.steps_taken, saturating at MaxClock
    bodies,             \* this.bodies: sequence of Body records
    current_game_state, \* this.current_game_state
    current_game_level, \* this.current_game_level
    game_score,         \* this.game_score
    game_target,        \* this.game_target
    game_started,       \* this.game_started
    pitch_count,        \* this.pitch_count
    batter_x,           \* this.batter_x                            (half units)
    toggle_swing,       \* this.toggle_swing
    swing_bat,          \* this.swing_bat
    swing_age,          \* t - this.curr_swing_time, saturating     (time units of ms)
    ball_hit,           \* this.ball_hit
    ball_bounced,       \* this.ball_bounced
    pitch_time,         \* this.pitch_time
    pitch_age,          \* t - this.pitch_timer, saturating         (time units of ms)
    selection,          \* camera_teleporter.selection
    enabled,            \* camera_teleporter.enabled
    frame               \* what the last handler did: its name, and for a display
                        \* frame the spawn and the per-step cues and branches

vars == <<time_accumulator, t, steps_taken, bodies, current_game_state,
          current_game_level, game_score, game_target, game_started, pitch_count,
          batter_x, toggle_swing, swing_bat, swing_age, ball_hit, ball_bounced,
          pitch_time, pitch_age, selection, enabled, frame>>

---------------------------------------------------------------------------
(* Units *)

TimeScale == 100
VelScale == 100
LengthScale == 2000

\* length units moved per velocity unit and time unit: 2000 / (100 * 100)
StepDivisor == (VelScale * TimeScale) \div LengthScale

Abs(n) == IF n < 0 THEN -n ELSE n
Min(a, b) == IF a < b THEN a ELSE b
Max(a, b) == IF a > b THEN a ELSE b
Sign(n) == IF n > 0 THEN 1 ELSE IF n < 0 THEN -1 ELSE 0
\* the product n * num / den rounded toward zero
Trunc(n, num, den) == Sign(n) * ((Abs(n) * num) \div den)

---------------------------------------------------------------------------
(* Vec and Mat: 3-vectors, and the 2x2 block of a rotation about the spin  *)
(* axis, <<a, b, c, d>> row by row.  Angles are whole quarter turns, so    *)
(* that every rotation matrix is an integer matrix.                        *)

VecPlus(u, v) == [i \in DOMAIN u |-> u[i] + v[i]]
VecTimes(u, k) == [i \in DOMAIN u |-> u[i] * k]
\* Vec.mix: this * (1 - s) + b * s, with s = a / den, the result times den
VecMix(u, v, a, den) == [i \in DOMAIN u |-> u[i] * (den - a) + v[i] * a]

Identity == <<1, 0, 0, 1>>
Rotation(q) ==
    CASE q % 4 = 0 -> <<1, 0, 0, 1>>
      [] q % 4 = 1 -> <<0, -1, 1, 0>>
      [] q % 4 = 2 -> <<-1, 0, 0, -1>>
      [] OTHER     -> <<0, 1, -1, 0>>
MatTimes(A, B) ==
    <<A[1] * B[1] + A[2] * B[3], A[1] * B[2] + A[2] * B[4],
      A[3] * B[1] + A[4] * B[3], A[3] * B[2] + A[4] * B[4]>>

---------------------------------------------------------------------------
(* Body.  `rotation` and `previous.rotation` are references: each names a  *)
(* cell of `cells`, the two matrices the body can hold, because            *)
(* pre_multiply changes the matrix `rotation` refers to in place.          *)
(* `center` is only ever replaced by a new vector, so it is a value.       *)
(* drawn_location holds its centre and rotation times dt (the blend's      *)
(* denominator).                                                           *)

dt == TimeScale \div 20

Other(cell) == 3 - cell
RotationOf(b) == b.cells[b.rotation]
PreviousRotationOf(b) == b.cells[b.previous.rotation]

UnitScale == <<100, 100, 100>>
Pose(center, rotation, scale) == [center |-> center, rotation |-> rotation, scale |-> scale]
\* a pose with the blend's denominator applied to centre and rotation
Drawn(center, rotation, scale) ==
    Pose(VecTimes(center, dt), VecTimes(rotation, dt), scale)

NewBody(shape, size) == [shape |-> shape, size |-> size]

\* emplace that overwrites the pose of a body already in flight but keeps
\* the previous state it had
emplace_keeping_previous(b, location_matrix, linear_velocity, angular_velocity) ==
    [shape |-> b.shape, size |-> b.size,
     center |-> location_matrix.center,
     rotation |-> 1,
     cells |-> <<location_matrix.rotation,
                 IF "previous" \in DOMAIN b THEN PreviousRotationOf(b)
                 ELSE location_matrix.rotation>>,
     previous |-> [center |-> IF "previous" \in DOMAIN b THEN b.previous.center
                              ELSE location_matrix.center,
                   rotation |-> 2],
     drawn_location |-> Drawn(location_matrix.center, location_matrix.rotation,
                              location_matrix.scale),
     linear_velocity |-> linear_velocity,
     angular_velocity |-> angular_velocity]

emplace(b, location_matrix, linear_velocity, angular_velocity) ==
    [shape |-> b.shape, size |-> b.size,
     center |-> location_matrix.center,
     rotation |-> 1,
     cells |-> <<location_matrix.rotation, location_matrix.rotation>>,
     previous |-> [center |-> location_matrix.center, rotation |-> 2],
     drawn_location |-> Drawn(location_matrix.center, location_matrix.rotation,
                              location_matrix.scale),
     linear_velocity |-> linear_velocity,
     angular_velocity |-> angular_velocity]

\* previous without the copies: it shares the live rotation matrix
SavePreviousAliased(b) ==
    [b EXCEPT !.previous = [center |-> b.center, rotation |-> b.rotation]]

\* this.previous = {center: this.center.copy(), rotation: this.rotation.copy()}
SavePrevious(b) ==
    [b EXCEPT !.previous = [center |-> b.center, rotation |-> Other(b.rotation)],
              !.cells[Other(b.rotation)] = b.cells[b.rotation]]

\* the step without its time: center.plus(linear_velocity), a whole second
advance_unscaled(b, time_amount) ==
    LET saved == SavePrevious(b)
    IN  [saved EXCEPT
            !.center = VecPlus(b.center, [i \in 1..3 |->
                           Trunc(b.linear_velocity[i], TimeScale, StepDivisor)]),
            !.cells[saved.rotation] =
                MatTimes(Rotation((time_amount * b.angular_velocity) \div dt),
                         saved.cells[saved.rotation])]

\* angular_velocity is in quarter turns per fixed step
advance(b, time_amount) ==
    LET saved == SavePrevious(b)
    IN  [saved EXCEPT
            !.center = VecPlus(b.center,
                          [i \in 1..3 |->
                              Trunc(b.linear_velocity[i], time_amount, StepDivisor)]),
            !.cells[saved.rotation] =
                MatTimes(Rotation((time_amount * b.angular_velocity) \div dt),
                         saved.cells[saved.rotation])]

\* alpha = a / dt; the result is the blended rotation times dt
blend_rotation(b, a) == VecMix(PreviousRotationOf(b), RotationOf(b), a, dt)

\* the blend taken from the current pose toward the previous one
blend_state_reversed(b, a) ==
    [b EXCEPT !.drawn_location =
        Pose(VecMix(b.center, b.previous.center, a, dt),
             VecMix(RotationOf(b), PreviousRotationOf(b), a, dt), b.size)]

blend_state(b, a) ==
    [b EXCEPT !.drawn_location =
        Pose(VecMix(b.previous.center, b.center, a, dt), blend_rotation(b, a), b.size)]

---------------------------------------------------------------------------
(* Collision test and the per-step game physics (Baseball.update_state)    *)

\* |c| < radius, radius a multiple of 1000 length units.  The squares are
\* summed in two limbs of base 10^6 to stay within 32-bit integers.
SqHi(c) ==
    LET a == Abs(c) \div 1000
        b == Abs(c) % 1000
    IN  a * a + (2 * a * b * 1000 + b * b) \div 1000000
SqLo(c) ==
    LET a == Abs(c) \div 1000
        b == Abs(c) % 1000
    IN  (2 * a * b * 1000 + b * b) % 1000000
NormLess(c, radius) ==
    /\ \A i \in 1..3 : Abs(c[i]) < radius
    /\ SqHi(c[1]) + SqHi(c[2]) + SqHi(c[3])
         + (SqLo(c[1]) + SqLo(c[2]) + SqLo(c[3])) \div 1000000
       < (radius \div 1000) * (radius \div 1000)

Length(n) == n * LengthScale
Velocity(n) == n * VelScale

\* the largest distance, in whole length numbers and per axis, between the
\* drawn centres of two bodies whose sampled ellipsoids can intersect
Reach == 3

\* Whether the sample points of b, taken into a's frame, can fall inside a's
\* unit sphere: only when the drawn centres are within Reach on every axis.
\* Drawn centres carry the blend's denominator dt.
Near(a, b) ==
    \A i \in 1..3 :
        Abs(a.drawn_location.center[i] - b.drawn_location.center[i])
            <= Length(Reach) * dt

\* the test without `if (this == b) return false`
check_if_colliding_self(bs, i, j, some) == Near(bs[i], bs[j]) /\ some

\* check_if_colliding of bodies[i] against bodies[j].  `some` is the outcome
\* of points.some(intersect_test ...) for this pair of poses, which depends
\* on the bat's swing pose and on the sample points: an input of the step.
check_if_colliding(bs, i, j, some) ==
    IF i = j THEN FALSE ELSE Near(bs[i], bs[j]) /\ some

Floor == -9700 * (LengthScale \div 1000)

\* the rule without the slope of its far boundary
HomeRunNoSlope(x, z) == Abs(x) < Length(150) /\ Abs(z) > Length(160)

\* Math.abs(x) < 150 && Math.abs(z) > 160 - Math.abs(x)
HomeRun(x, z) == Abs(x) < Length(150) /\ Abs(z) > Length(160) - Abs(x)

\* what one fixed step did: the bodies and flags it started with, the centre
\* of the ball it started with, the crack cues, ball_hit after the collision
\* loop, and the branches taken
NoStep ==
    [n |-> 0, was_hit |-> FALSE, was_bounced |-> FALSE, where |-> <<0, 0, 0>>,
     crack |-> 0, hit |-> FALSE, launch |-> FALSE, bounce |-> FALSE,
     judged |-> "none", at |-> <<0, 0>>, far |-> FALSE, settle |-> FALSE,
     decrease |-> 0, thrown |-> <<0, 0, 0>>, fell |-> <<0, 0, 0>>,
     damped |-> <<0, 0, 0>>]

\* the place in frame.steps of the fixed step under way
Last(s) == Len(s.frame.steps)

\* the entry of update_state
Begin(s) ==
    [s EXCEPT !.frame.steps =
        Append(@, [NoStep EXCEPT !.n = Len(s.bodies), !.was_hit = s.ball_hit,
                                 !.was_bounced = s.ball_bounced,
                                 !.where = IF Len(s.bodies) > 1
                                           THEN s.bodies[2].center ELSE @,
                                 !.thrown = IF Len(s.bodies) > 1
                                            THEN s.bodies[2].linear_velocity ELSE @])]

\* The outcome of the sample-point test for the ordered pair (i, j).  For a
\* body against itself T = inverse(drawn_location) * drawn_location is the
\* identity, and every sample point p of the unit sphere has
\* p.dot(p) = 1 < 1 + leeway: the test passes.
SomeOf(in, i, j) == IF i = j THEN TRUE ELSE IF i < j THEN in.ab ELSE in.ba

\* the body of the collision loop, for the set `hits` of colliding ordered
\* pairs: each plays the crack cue, sets ball_hit and zeroes the angular
\* velocity of the second body of the pair
Collide(s, hits) ==
    [s EXCEPT !.ball_hit = (hits # {}),
              !.bodies = [j \in 1..Len(s.bodies) |->
                             IF \E p \in hits : p[2] = j
                             THEN [s.bodies[j] EXCEPT !.angular_velocity = 0]
                             ELSE s.bodies[j]],
              !.frame.steps[Last(s)].crack = Cardinality(hits),
              !.frame.steps[Last(s)].hit = (hits # {})]

\* update_state, first block: while the ball is not hit, test every ordered
\* pair of bodies
CollisionPhase(s, in) ==
    IF s.ball_hit THEN [s EXCEPT !.frame.steps[Last(s)].hit = TRUE]
    ELSE Collide(s, {p \in (1..Len(s.bodies)) \X (1..Len(s.bodies)) :
                        check_if_colliding(s.bodies, p[1], p[2],
                                           SomeOf(in, p[1], p[2]))})

\* the three assignments of the launch without their test
LaunchEveryTick(ball, boost) ==
    [ball EXCEPT !.linear_velocity =
        <<Trunc(ball.center[3], 5 * VelScale, LengthScale) + Velocity(5),
          ball.linear_velocity[2] + Velocity(boost),
          IF 3 * Abs(ball.center[3]) * 10 >= 36 * LengthScale
          THEN -Trunc(ball.linear_velocity[3], 36, 10)
          ELSE -Trunc(ball.linear_velocity[3], 3 * Abs(ball.center[3]), LengthScale)>>]

\* if (ball.linear_velocity[2] > 0) { ... }: the bat redirects the ball
Launch(ball, boost) ==
    LET v == ball.linear_velocity
        z == ball.center[3]
    IN  IF v[3] > 0
        THEN [ball EXCEPT !.linear_velocity =
                <<Trunc(z, 5 * VelScale, LengthScale) + Velocity(5),
                  v[2] + Velocity(boost),
                  IF 3 * Abs(z) * 10 >= 36 * LengthScale
                  THEN -Trunc(v[3], 36, 10)
                  ELSE -Trunc(v[3], 3 * Abs(z), LengthScale)>>]
        ELSE ball

\* ball.linear_velocity[1] += dt * -9.8
Gravity(ball, step) ==
    [ball EXCEPT !.linear_velocity[2] = @ - Trunc(98 * step, VelScale, 10 * TimeScale)]

\* ball.center[1] < -9.7 && ball.linear_velocity[1] < 0
Bouncing(ball) == ball.center[2] < Floor /\ ball.linear_velocity[2] < 0

\* a bounce that reverses all three components: each times -0.6
DampReversing(ball) ==
    [ball EXCEPT !.linear_velocity =
                    <<-Trunc(@[1], 6, 10), -Trunc(@[2], 6, 10), -Trunc(@[3], 6, 10)>>,
                 !.angular_velocity = Trunc(@, 5, 10)]

\* the damping of a bounce
Damp(ball) ==
    [ball EXCEPT !.linear_velocity =
                    <<Trunc(@[1], 6, 10), -Trunc(@[2], 6, 10), Trunc(@[3], 6, 10)>>,
                 !.angular_velocity = Trunc(@, 5, 10)]

\* linear_velocity.norm() < 2
Slow(v) ==
    /\ \A i \in 1..3 : Abs(v[i]) < Velocity(2)
    /\ v[1] * v[1] + v[2] * v[2] + v[3] * v[3] < Velocity(2) * Velocity(2)

\* if (norm < 2 && center[1] < -9.7) linear_velocity[1] = 0
Rest(ball) ==
    IF Slow(ball.linear_velocity) /\ ball.center[2] < Floor
    THEN [ball EXCEPT !.linear_velocity[2] = 0]
    ELSE ball

\* a looser test of rest: every component under 0.05
SettledTenth(ball) == \A i \in 1..3 : 20 * Abs(ball.linear_velocity[i]) < Velocity(1)

\* linear_velocity.every(v => Math.abs(v) < 0.5)
Settled(ball) == \A i \in 1..3 : 2 * Abs(ball.linear_velocity[i]) < Velocity(1)

Within300(b) == NormLess(b.center, Length(300))
Within90(b) == NormLess(b.center, Length(90))
Within40(b) == NormLess(b.center, Length(40))

\* Camera_Teleporter.decrease, n times
Decrease(sel, n) == Max(sel - n, 0)
\* Camera_Teleporter.increase with `cameras` camera poses pushed
Increase(sel, cameras) == Min(sel + 1, Max(cameras - 1, 0))

\* the launch of a hit ball that still flies toward the batter
Launched(s, boost) ==
    [s EXCEPT !.bodies[2] = Launch(@, boost),
              !.frame.steps[Last(s)].launch = s.bodies[2].linear_velocity[3] > 0]

Fallen(s, step) ==
    [s EXCEPT !.bodies[2] = Gravity(@, step),
              !.frame.steps[Last(s)].fell = Gravity(s.bodies[2], step).linear_velocity]

\* the judgment without its test of ball_bounced: every bounce is judged
JudgeEveryBounce(s) ==
    [s EXCEPT
        !.ball_bounced = TRUE,
        !.game_score = IF HomeRun(s.bodies[2].center[1], s.bodies[2].center[3])
                       THEN @ + 1 ELSE @,
        !.frame.steps[Last(s)].judged =
            IF HomeRun(s.bodies[2].center[1], s.bodies[2].center[3])
            THEN "homerun" ELSE "no_homerun",
        !.frame.steps[Last(s)].at =
            <<s.bodies[2].center[1], s.bodies[2].center[3]>>]

\* if (!this.ball_bounced) { ... }: the judgment of the first bounce
Judge(s) ==
    IF s.ball_bounced THEN s
    ELSE [s EXCEPT
            !.ball_bounced = TRUE,
            !.game_score = IF HomeRun(s.bodies[2].center[1], s.bodies[2].center[3])
                           THEN @ + 1 ELSE @,
            !.frame.steps[Last(s)].judged =
                IF HomeRun(s.bodies[2].center[1], s.bodies[2].center[3])
                THEN "homerun" ELSE "no_homerun",
            !.frame.steps[Last(s)].at =
                <<s.bodies[2].center[1], s.bodies[2].center[3]>>]

\* If about to fall through floor, reverse y velocity
Bounce(s) ==
    IF Bouncing(s.bodies[2])
    THEN [Judge(s) EXCEPT !.bodies[2] = Damp(@), !.frame.steps[Last(s)].bounce = TRUE,
                          !.frame.steps[Last(s)].damped = Damp(s.bodies[2]).linear_velocity]
    ELSE s

Resting(s) == [s EXCEPT !.bodies[2] = Rest(@)]

\* the forces without their test of ball_hit
ForcesUnguarded(s, step, boost) == Resting(Bounce(Fallen(Launched(s, boost), step)))

\* update_state, second block, the forces on a hit ball
Forces(s, step, boost) ==
    IF s.ball_hit THEN Resting(Bounce(Fallen(Launched(s, boost), step))) ELSE s

\* the filter of a hit ball's step with the step back asked for kept balls only
KeepCountingBalls(s, kept) ==
    [s EXCEPT !.bodies = kept,
              !.pitch_time = @ \/ (kept # <<>>),
              !.selection = Decrease(@, Len(SelectSeq(kept, LAMBDA b : b.shape = "ball_4" /\ Within90(b)))),
              !.frame.steps[Last(s)].far = Len(kept) < Len(s.bodies),
              !.frame.steps[Last(s)].decrease = Len(SelectSeq(kept, LAMBDA b : b.shape = "ball_4" /\ Within90(b)))]

\* the filter of a hit ball's step, which keeps the bodies `kept`
Keep(s, kept) ==
    [s EXCEPT !.bodies = kept,
              !.pitch_time = @ \/ (kept # <<>>),
              !.selection = Decrease(@, Len(SelectSeq(kept, Within90))),
              !.frame.steps[Last(s)].far = Len(kept) < Len(s.bodies),
              !.frame.steps[Last(s)].decrease = Len(SelectSeq(kept, Within90))]

\* the filters with the limit of a hit ball for every ball
FilterHitLimit(s) ==
    IF s.ball_hit
    THEN Keep(s, SelectSeq(s.bodies, Within300))
    ELSE [s EXCEPT !.bodies = SelectSeq(@, Within300),
                   !.frame.steps[Last(s)].far =
                       Len(SelectSeq(s.bodies, Within300)) < Len(s.bodies)]

\* update_state, the distance filters
Filter(s) ==
    IF s.ball_hit
    THEN Keep(s, SelectSeq(s.bodies, Within300))
    ELSE [s EXCEPT !.bodies = SelectSeq(@, Within40),
                   !.frame.steps[Last(s)].far =
                       Len(SelectSeq(s.bodies, Within40)) < Len(s.bodies)]

\* the end with bodies.shift() for bodies.pop()
RetireFirst(s) ==
    IF Len(s.bodies) < 2
    THEN [s EXCEPT !.ball_hit = FALSE, !.ball_bounced = FALSE]
    ELSE IF Settled(s.bodies[2])
         THEN [s EXCEPT !.ball_hit = FALSE, !.ball_bounced = FALSE,
                        !.bodies = Tail(@),
                        !.frame.steps[Last(s)].settle = TRUE]
         ELSE s

\* the end with ball_bounced cleared in every tick, at rest or not
RetireClearingBounced(s) ==
    IF Len(s.bodies) < 2
    THEN [s EXCEPT !.ball_hit = FALSE, !.ball_bounced = FALSE]
    ELSE IF Settled(s.bodies[2])
         THEN [s EXCEPT !.ball_hit = FALSE, !.ball_bounced = FALSE,
                        !.bodies = SubSeq(@, 1, Len(@) - 1),
                        !.frame.steps[Last(s)].settle = TRUE]
         ELSE [s EXCEPT !.ball_bounced = FALSE]

\* update_state, the end: an idle list, or a ball that has come to rest
Retire(s) ==
    IF Len(s.bodies) < 2
    THEN [s EXCEPT !.ball_hit = FALSE, !.ball_bounced = FALSE]
    ELSE IF Settled(s.bodies[2])
         THEN [s EXCEPT !.ball_hit = FALSE, !.ball_bounced = FALSE,
                        !.bodies = SubSeq(@, 1, Len(@) - 1),
                        !.frame.steps[Last(s)].settle = TRUE]
         ELSE s

\* the ball block with the reset of the flags of an idle list moved out of
\* its guard
BallPhaseIdleReset(s, step, boost) ==
    IF Len(s.bodies) > 1 THEN Retire(Filter(Forces(s, step, boost)))
    ELSE [s EXCEPT !.ball_hit = FALSE, !.ball_bounced = FALSE]

\* if (this.bodies.length > 1) { ... }
BallPhase(s, step, boost) ==
    IF Len(s.bodies) > 1 THEN Retire(Filter(Forces(s, step, boost))) ELSE s

\* One call of Baseball.update_state(dt).  in = [ab, ba, boost]: the two
\* sample-point outcomes and Math.floor(Math.random() * 21) + 10.
update_state(s, step, in) == BallPhase(CollisionPhase(Begin(s), in), step, in.boost)

---------------------------------------------------------------------------
(* The fixed-step simulator (Final_Project.simulate)                       *)

\* the clock is kept exactly for the first MaxClock fixed steps
MaxClock == 24

\* Math.min(frame_time, 0.1), with a doubled limit
ClampTimeLoose == TimeScale \div 5

\* the 0.1 of Math.min(frame_time, 0.1)
ClampTime == TimeScale \div 10

\* this.time_accumulator += Math.min(frame_time, 0.1)
Accumulate(s, frame_time) ==
    [s EXCEPT !.time_accumulator = @ + Min(frame_time, ClampTime)]

\* this.t += sign * dt; this.time_accumulator -= sign * dt; this.steps_taken++
ClockStep(s, frame_time) ==
    [s EXCEPT !.t = IF s.steps_taken < MaxClock THEN @ + Sign(frame_time) * dt ELSE @,
              !.time_accumulator = @ - Sign(frame_time) * dt,
              !.steps_taken = IF @ < MaxClock THEN @ + 1 ELSE @]

\* for (let b of this.bodies) b.advance(time_amount)
AdvanceAll(s, time_amount) ==
    [s EXCEPT !.bodies = [i \in 1..Len(s.bodies) |-> advance(s.bodies[i], time_amount)]]

\* for (let b of this.bodies) b.blend_state(alpha), alpha = time_accumulator / dt
BlendAll(s) ==
    [s EXCEPT !.bodies =
        [i \in 1..Len(s.bodies) |-> blend_state(s.bodies[i], s.time_accumulator)]]

\* the input of the k-th fixed step of a frame
InputAt(ins, k) == ins[Min(k, Len(ins))]

\* one pass of the body of the loop of simulate
SimPass(s, frame_time, ins, k) ==
    ClockStep(AdvanceAll(update_state(s, dt, InputAt(ins, k)), dt), frame_time)

\* the loop with its test after the body: do { ... } while (...)
SimLoopDoWhile(s, frame_time, ins, k) ==
    IF Abs(SimPass(s, frame_time, ins, k).time_accumulator) >= dt
    THEN SimPass(SimPass(s, frame_time, ins, k), frame_time, ins, k + 1)
    ELSE SimPass(s, frame_time, ins, k)

RECURSIVE SimLoop(_, _, _, _)
SimLoop(s, frame_time, ins, k) ==
    IF Abs(s.time_accumulator) >= dt
    THEN SimLoop(ClockStep(AdvanceAll(update_state(s, dt, InputAt(ins, k)), dt),
                           frame_time),
                 frame_time, ins, k + 1)
    ELSE s

simulate(s, frame_time, ins) ==
    BlendAll(SimLoop(Accumulate(s, frame_time), frame_time, ins, 1))

\* the stepping loop of the start and game-won screens, which moves only
\* the title balls (scenery, not modelled) and the clock
RECURSIVE TitleLoop(_, _)
TitleLoop(s, frame_time) ==
    IF Abs(s.time_accumulator) >= dt
    THEN TitleLoop([ClockStep(s, frame_time) EXCEPT !.frame.title_steps = @ + 1],
                   frame_time)
    ELSE s

TitleScreen(s, frame_time) == TitleLoop(Accumulate(s, frame_time), frame_time)

---------------------------------------------------------------------------
(* The per-frame game logic (Final_Project.display)                        *)

\* game_level.one .. four are "1" .. "4" and Restart assigns the number 1;
\* every comparison is ==, under which "1" and 1 are the same level.
LevelOne == 1
LevelTwo == 2
LevelThree == 3
LevelFour == 4

PitchBudget == 10

\* animation_time is in milliseconds: t = animation_time / 1000
Millis(n) == n * TimeScale
\* t > this.pitch_timer + 2
PitchDelay == Millis(2 * 1000)
\* swing_diff >= Math.PI / 4, in whole time units
SwingTime == 78540

Age(age, delta, cap) == Min(age + delta, cap)

GameOverCheck(s, level, target) ==
    IF s.current_game_level = level /\ s.game_score < target /\ s.pitch_count = -1
    THEN [s EXCEPT !.current_game_state = "GAME OVER"]
    ELSE s

\* the advance without the reset of the score
AdvanceCheckKeepScore(s, level, target, left, next) ==
    IF s.current_game_level = level /\ s.game_score >= target /\ s.pitch_count = left
    THEN [s EXCEPT !.current_game_level = next, !.pitch_count = PitchBudget]
    ELSE s

\* the advance that adds the budget to what is left: pitch_count += 10
AdvanceCheckAddsBudget(s, level, target, left, next) ==
    IF s.current_game_level = level /\ s.game_score >= target /\ s.pitch_count = left
    THEN [s EXCEPT !.current_game_level = next, !.game_score = 0,
                   !.pitch_count = @ + PitchBudget]
    ELSE s

AdvanceCheck(s, level, target, left, next) ==
    IF s.current_game_level = level /\ s.game_score >= target /\ s.pitch_count = left
    THEN [s EXCEPT !.current_game_level = next, !.game_score = 0,
                   !.pitch_count = PitchBudget]
    ELSE s

WonCheck(s, level, target) ==
    IF s.current_game_level = level /\ s.game_score >= target /\ s.pitch_count = -1
    THEN [s EXCEPT !.current_game_state = "YOU WIN"]
    ELSE s

\* the four game-over checks, in the order of the code
GameOverChecks(s) ==
    GameOverCheck(GameOverCheck(GameOverCheck(GameOverCheck(s,
        LevelOne, 3), LevelTwo, 5), LevelThree, 7), LevelFour, 10)

\* the checks with level two advancing to level three, as in the lines the
\* code has commented out
ProgressionFourLevels(s) ==
    WonCheck(AdvanceCheck(AdvanceCheck(AdvanceCheck(GameOverChecks(s),
        LevelOne, 3, -1, LevelTwo), LevelTwo, 5, -1, LevelThree),
        LevelThree, 7, 0, LevelFour), LevelFour, 10)

\* the eight checks of display, in the order of the code
Progression(s) ==
    WonCheck(AdvanceCheck(WonCheck(AdvanceCheck(GameOverChecks(s),
        LevelOne, 3, -1, LevelTwo), LevelTwo, 5),
        LevelThree, 7, 0, LevelFour), LevelFour, 10)

Target(s) ==
    [s EXCEPT !.game_target =
        CASE s.current_game_level = 2 -> 5
          [] s.current_game_level = 3 -> 7
          [] s.current_game_level = 4 -> 10
          [] s.current_game_level = 5 -> 13
          [] OTHER -> @]

Swing(s) ==
    LET a == IF s.toggle_swing
             THEN [s EXCEPT !.swing_age = 0, !.swing_bat = TRUE, !.toggle_swing = FALSE]
             ELSE s
    IN  IF a.swing_bat /\ a.swing_age >= SwingTime
        THEN [a EXCEPT !.swing_bat = FALSE] ELSE a

\* the pose of the hidden cylinder in the bat's head, at rest: the centre
\* (batter_x + 0.825, -4.114, 3.805)
BatPose(x) == Pose(<<x * (LengthScale \div 2) + 1650, -8228, 7610>>, Identity, UnitScale)
\* the pose of a pitched ball: the centre (-1.3215, -7, -24.51)
BallPose == Pose(<<-2643, -14000, -49020>>, Identity, UnitScale)

Bat == NewBody("cylinder", <<8, 8, 40>>)
Ball == NewBody("ball_4", <<50, 50, 100>>)
Zero == <<0, 0, 0>>

SpawnBat(s) ==
    IF Len(s.bodies) < 1
    THEN [s EXCEPT !.bodies = Append(@, emplace(Bat, BatPose(s.batter_x), Zero, 0))]
    ELSE s

PitchTimer(s) ==
    IF s.pitch_time /\ Len(s.bodies) < 2
    THEN [s EXCEPT !.pitch_age = 0, !.pitch_time = FALSE]
    ELSE s

\* the guard of the pitch without its test of the phase
CanPitchAnyPhase(s) ==
    /\ s.pitch_age > PitchDelay
    /\ Len(s.bodies) < 2
    /\ s.pitch_count > -1

\* the guard of the pitch without its test of the bodies list
CanPitchCrowded(s) ==
    /\ s.pitch_age > PitchDelay
    /\ s.pitch_count > -1
    /\ s.current_game_state = "STARTED"

\* the guard of the pitch
CanPitch(s) ==
    /\ s.pitch_age > PitchDelay
    /\ Len(s.bodies) < 2
    /\ s.pitch_count > -1
    /\ s.current_game_state = "STARTED"

\* pitch = [speed, xy]: getRandomInt(10, 18) and getRandomInt(-2, 3)
SpawnBall(s, pitch) ==
    IF CanPitch(s)
    THEN [s EXCEPT !.pitch_time = FALSE,
                   !.pitch_count = @ - 1,
                   !.bodies = Append(@, emplace(Ball, BallPose,
                       <<Trunc(4, VelScale, 10) + pitch.xy * Trunc(3, VelScale, 10),
                         0, Velocity(pitch.speed)>>, 0)),
                   !.frame.spawned = TRUE]
    ELSE s

PlaceBat(s) ==
    [s EXCEPT !.bodies = [i \in 1..Len(@) |->
        IF @[i].shape = "cylinder"
        THEN emplace(@[i], BatPose(s.batter_x), Zero, 0)
        ELSE @[i]]]

\* after simulate: the spectator camera follows a hit ball
Spectate(s) ==
    IF s.current_game_state = "STARTED" /\ s.ball_hit
       /\ \E i \in 1..Len(s.bodies) : s.bodies[i].shape = "ball_4"
    THEN [s EXCEPT !.enabled = TRUE, !.selection = Increase(@, 2)]
    ELSE s

\* what a frame sees of the game at one point of display
Seen(s) ==
    [n |-> Len(s.bodies), state |-> s.current_game_state,
     level |-> s.current_game_level, score |-> s.game_score,
     pitch_count |-> s.pitch_count, pitch_age |-> s.pitch_age]

Unseen ==
    [n |-> 0, state |-> "", level |-> 0, score |-> 0, pitch_count |-> 0,
     pitch_age |-> 0]

\* the record of a handler: its name and, for display, the host time since
\* the frame before, the game on entry and at the pitch decision, the spawn,
\* and the fixed steps it ran
NewFrame(op) ==
    [op |-> op, delta |-> 0, on_entry |-> Unseen, at_pitch |-> Unseen,
     spawned |-> FALSE, steps |-> <<>>, title_steps |-> 0]

---------------------------------------------------------------------------
(* State, inputs and actions                                               *)

State ==
    [time_accumulator |-> time_accumulator, t |-> t, steps_taken |-> steps_taken,
     bodies |-> bodies, current_game_state |-> current_game_state,
     current_game_level |-> current_game_level, game_score |-> game_score,
     game_target |-> game_target, game_started |-> game_started,
     pitch_count |-> pitch_count, batter_x |-> batter_x,
     toggle_swing |-> toggle_swing, swing_bat |-> swing_bat, swing_age |-> swing_age,
     ball_hit |-> ball_hit, ball_bounced |-> ball_bounced, pitch_time |-> pitch_time,
     pitch_age |-> pitch_age, selection |-> selection, enabled |-> enabled,
     frame |-> frame]

Becomes(s) ==
    /\ time_accumulator' = s.time_accumulator
    /\ t' = s.t
    /\ steps_taken' = s.steps_taken
    /\ bodies' = s.bodies
    /\ current_game_state' = s.current_game_state
    /\ current_game_level' = s.current_game_level
    /\ game_score' = s.game_score
    /\ game_target' = s.game_target
    /\ game_started' = s.game_started
    /\ pitch_count' = s.pitch_count
    /\ batter_x' = s.batter_x
    /\ toggle_swing' = s.toggle_swing
    /\ swing_bat' = s.swing_bat
    /\ swing_age' = s.swing_age
    /\ ball_hit' = s.ball_hit
    /\ ball_bounced' = s.ball_bounced
    /\ pitch_time' = s.pitch_time
    /\ pitch_age' = s.pitch_age
    /\ selection' = s.selection
    /\ enabled' = s.enabled
    /\ frame' = s.frame

\* the state the constructors leave
Init ==
    /\ time_accumulator = 0
    /\ t = 0
    /\ steps_taken = 0
    /\ bodies = <<>>
    /\ current_game_state = "NOT STARTED"
    /\ current_game_level = LevelOne
    /\ game_score = 0
    /\ game_target = 3
    /\ game_started = 0
    /\ pitch_count = PitchBudget
    /\ batter_x = -8
    /\ toggle_swing = FALSE
    /\ swing_bat = FALSE
    /\ swing_age = 0
    /\ ball_hit = FALSE
    /\ ball_bounced = FALSE
    /\ pitch_time = FALSE
    /\ pitch_age = 0
    /\ selection = 0
    /\ enabled = FALSE
    /\ frame = NewFrame("constructor")

\* a draw that includes its upper limit
getRandomIntInclusive(min, max) == min .. max

\* getRandomInt(min, max): the integers from min up to, not including, max
getRandomInt(min, max) == min .. (max - 1)

\* The draws a whole game follows, out of getRandomInt(10, 18),
\* getRandomInt(-2, 3) and Math.floor(Math.random() * 21) + 10
Pitches == [speed : {17} \cap getRandomInt(10, 18), xy : {0} \cap getRandomInt(-2, 3)]
Boosts == {10, 30} \cap getRandomInt(10, 31)

\* the frame time the host supplies in a game: one second
FrameDeltas == {Millis(1000)}

Quiet(boost) == [ab |-> FALSE, ba |-> FALSE, boost |-> boost]
Touches(boost) ==
    {[ab |-> TRUE, ba |-> FALSE, boost |-> boost],
     [ab |-> FALSE, ba |-> TRUE, boost |-> boost],
     [ab |-> TRUE, ba |-> TRUE, boost |-> boost]}

\* The inputs of the fixed steps of one frame that can make a difference in
\* state s (the state at the call of simulate): a boost only when a ball
\* flying toward the batter is hit or can be hit in this frame, a touch only
\* when an unhit ball is drawn near the bat.  The drawn poses do not change
\* between the steps of one frame, and a ball is launched at most once.
InputChoices(s, boostings) ==
    LET ball == Len(s.bodies) > 1
        touch == ball /\ ~s.ball_hit /\ Near(s.bodies[1], s.bodies[2])
        boosts == IF ball /\ (s.ball_hit \/ touch) /\ s.bodies[2].linear_velocity[3] > 0
                  THEN boostings ELSE {10}
    IN  UNION {
          {<<Quiet(b), Quiet(b)>>}
          \cup (IF touch
                THEN {<<i, Quiet(b)>> : i \in Touches(b)}
                     \cup {<<Quiet(b), i>> : i \in Touches(b)}
                ELSE {})
          : b \in boosts}

\* the entry of display: the host's clock has moved by delta
Enter(s, delta) ==
    [s EXCEPT !.pitch_age = Age(@, delta, PitchDelay + 1),
              !.swing_age = Age(@, delta, SwingTime),
              !.frame = [NewFrame("display") EXCEPT !.on_entry = Seen(s),
                                                    !.delta = delta],
              !.game_started =
                  IF s.current_game_state = "STARTED" /\ @ = 0 THEN 1 ELSE @]

\* the start screen and the game-won screen step the clock themselves
Screens(s, delta) ==
    IF s.current_game_state \in {"NOT STARTED", "YOU WIN"}
    THEN TitleScreen(s, delta) ELSE s

Decide(s) == [s EXCEPT !.frame.at_pitch = Seen(s)]

\* the part of display before the pitch
Prepare(s, delta) ==
    Decide(PitchTimer(SpawnBat(Swing(Target(Progression(
        Screens(Enter(s, delta), delta)))))))

\* One call of display.  delta is program_state.animation_delta_time.
display(s, delta, pitch, ins) ==
    Spectate(simulate(PlaceBat(SpawnBall(Prepare(s, delta), pitch)), delta, ins))

\* a display frame with its frame time, pitch and boosts out of the given sets
FrameOf(deltas, pitches, boostings) ==
    \E delta \in deltas :
        LET pre == Prepare(State, delta)
        IN  \E pitch \in (IF CanPitch(pre) THEN pitches
                          ELSE {[speed |-> 10, xy |-> 0]}) :
                LET placed == PlaceBat(SpawnBall(pre, pitch))
                IN  \E ins \in InputChoices(placed, boostings) :
                        Becomes(display(State, delta, pitch, ins))

Frame == FrameOf(FrameDeltas, Pitches, Boosts)

Key(s, name) == Becomes([s EXCEPT !.frame = NewFrame(name)])

\* "Start Game"; pressed while the game is started it changes nothing
StartGame ==
    /\ current_game_state # "STARTED"
    /\ Key([State EXCEPT !.current_game_state = "STARTED"], "Start Game")

\* "Restart Game" taking the ball in play off the field as well
RestartGameClearingField ==
    Key([State EXCEPT !.current_game_state = "STARTED",
                      !.current_game_level = 1,
                      !.game_target = 3,
                      !.game_score = 0,
                      !.pitch_count = 10,
                      !.game_started = 0,
                      !.bodies = IF Len(@) > 1 THEN SubSeq(@, 1, 1) ELSE @,
                      !.ball_hit = FALSE,
                      !.ball_bounced = FALSE], "Restart Game")

\* "Restart Game"
RestartGame ==
    Key([State EXCEPT !.current_game_state = "STARTED",
                      !.current_game_level = 1,
                      !.game_target = 3,
                      !.game_score = 0,
                      !.pitch_count = 10,
                      !.game_started = 0], "Restart Game")

Next == Frame \/ StartGame \/ RestartGame

Spec == Init /\ [][Next]_vars

---------------------------------------------------------------------------
(* The first pitches of a game, with more of the draws and with frames of  *)
(* no duration                                                             *)

\* the pitches after which no further frame is followed
MaxPitches == 2

AllPitches == [speed : {10, 17} \cap getRandomInt(10, 18),
               xy : {-2, 0, 2} \cap getRandomInt(-2, 3)]
AllBoosts == {10, 20, 30} \cap getRandomInt(10, 31)
PitchDeltas == {0, Millis(1000)}

PitchFrame ==
    /\ pitch_count >= PitchBudget - MaxPitches
    /\ FrameOf(PitchDeltas, AllPitches, AllBoosts)

NextPitch == PitchFrame \/ StartGame

SpecPitch == Init /\ [][NextPitch]_vars

---------------------------------------------------------------------------
(* The clock: frames of every duration up to MaxFrameTime time units and   *)
(* of one second, for the first MaxSimSteps fixed steps                    *)

MaxFrameTime == 12
MaxSimSteps == 8

SimDeltas == (0 .. MaxFrameTime) \cup {Millis(1000)}

SimFrame ==
    /\ steps_taken < MaxSimSteps
    /\ FrameOf(SimDeltas, Pitches, {10})

NextSim == SimFrame \/ StartGame

SpecSim == Init /\ [][NextSim]_vars

---------------------------------------------------------------------------
(* One Body on its own: emplace, advance, a change of its velocities and   *)
(* blend_state, in any order                                               *)

\* the advance calls followed after an emplace
MaxAdvances == 3

BodyVelocities == {<<40, 0, 1700>>, <<-300, 900, -6100>>}
BodySpins == {0, 1}
AdvanceTimes == {dt, 2 * dt}

BodyFrame(op, n, alpha) == [op |-> op, n |-> n, alpha |-> alpha]

InitBody ==
    /\ Init
    /\ frame = NewFrame("constructor")

\* what a handler of this section leaves of the one body b
BodyBecomes(b, log) == Becomes([State EXCEPT !.bodies = <<b>>, !.frame = log])

BodyEmplace ==
    \E v \in BodyVelocities, w \in BodySpins :
        BodyBecomes(emplace(Ball, BallPose, v, w), BodyFrame("emplace", 0, 0))

BodyAdvance ==
    /\ Len(bodies) = 1
    /\ frame.n < MaxAdvances
    /\ \E time_amount \in AdvanceTimes :
           BodyBecomes(advance(bodies[1], time_amount),
                       BodyFrame("advance", frame.n + 1, 0))

\* b.linear_velocity = ..., b.angular_velocity = ... between two advances
BodyPush ==
    /\ Len(bodies) = 1
    /\ \E v \in BodyVelocities, w \in BodySpins :
           BodyBecomes([bodies[1] EXCEPT !.linear_velocity = v, !.angular_velocity = w],
                       BodyFrame("push", frame.n, 0))

BodyBlend ==
    /\ Len(bodies) = 1
    /\ \E a \in 0 .. dt :
           BodyBecomes(blend_state(bodies[1], a), BodyFrame("blend_state", frame.n, a))

NextBody == BodyEmplace \/ BodyAdvance \/ BodyPush \/ BodyBlend

SpecBody == InitBody /\ [][NextBody]_vars

---------------------------------------------------------------------------
(* The batter: the first pitches of a game with the keys that move the     *)
(* batter, batter_x in half units                                          *)

\* the pitches after which no further frame is followed
MaxBatPitches == 1
\* the key presses away from where the constructor puts the batter that are
\* followed
MaxBatMoves == 1

\* "Batter L": this.batter_x = Math.max(this.batter_x - 0.5, -6)
BatterL ==
    /\ batter_x > -8 - MaxBatMoves
    /\ Key([State EXCEPT !.batter_x = Max(@ - 1, -12)], "Batter L")

\* "Batter R": this.batter_x = Math.min(this.batter_x + 0.5, -2)
BatterR ==
    /\ batter_x < -8 + MaxBatMoves
    /\ Key([State EXCEPT !.batter_x = Min(@ + 1, -4)], "Batter R")

BatFrame ==
    /\ pitch_count >= PitchBudget - MaxBatPitches
    /\ FrameOf(FrameDeltas, Pitches, {10})

NextBat == BatFrame \/ StartGame \/ BatterL \/ BatterR

SpecBat == Init /\ [][NextBat]_vars

---------------------------------------------------------------------------
(* The keys that set flags, with the first fixed steps of a game           *)

\* the fixed steps after which no further frame is followed
MaxKeySteps == 16

\* "Home Run": this.ball_hit = true
HomeRunKey == Key([State EXCEPT !.ball_hit = TRUE], "Home Run")

KeysFrame ==
    /\ steps_taken < MaxKeySteps
    /\ FrameOf(FrameDeltas, Pitches, Boosts)

NextKeys == KeysFrame \/ StartGame \/ HomeRunKey

SpecKeys == Init /\ [][NextKeys]_vars

---------------------------------------------------------------------------
(* The Swing key, with the first fixed steps of a game                     *)

\* the fixed steps after which no further frame is followed
MaxSwingSteps == 16

\* frame times shorter and longer than a swing of pi/4 seconds
SwingDeltas == {Millis(300), Millis(1000)}

\* "Swing" with its test of swing_bat left out
SwingKeyUnguarded == Key([State EXCEPT !.toggle_swing = TRUE], "Swing")

\* "Swing": if (!this.swing_bat) this.toggle_swing = true
SwingKey == Key([State EXCEPT !.toggle_swing = IF ~swing_bat THEN TRUE ELSE @], "Swing")

SwingFrame ==
    /\ steps_taken < MaxSwingSteps
    /\ FrameOf(SwingDeltas, Pitches, {10})

NextSwing == SwingFrame \/ StartGame \/ SwingKey

SpecSwing == Init /\ [][NextSwing]_vars

---------------------------------------------------------------------------
(* The while loop of simulate, one iteration at a time, for frame times of *)
(* either sign.  No body is in play: update_state and advance leave the    *)
(* clock alone.  frame.op is the place in simulate: "while" at the test of *)
(* the loop, "return" after it; frame.delta is frame_time.                 *)

\* the largest frame time followed, in time units
MaxLoopTime == 7
\* the fixed steps after which no further call is followed
MaxLoopSteps == 6

\* Stands for the frame time -2^50 and for an accumulator at or below it.
\* Doubles of that magnitude lie 0.125 or more apart, so that adding a
\* residue below dt, or dt = 0.05 itself, rounds back to the same double.
Remote == -(2 ^ 30)

\* a + b as the program's doubles add, for |b| <= 0.1 or b Remote
Plus(a, b) == IF a = Remote \/ b = Remote THEN Remote ELSE a + b

LoopTimes == ((-MaxLoopTime) .. MaxLoopTime) \cup {Remote}

\* this.time_accumulator += Math.min(frame_time, 0.1)
LoopBegin ==
    /\ frame.op \in {"constructor", "return"}
    /\ steps_taken < MaxLoopSteps
    /\ \E frame_time \in LoopTimes :
           Becomes([State EXCEPT
                      !.time_accumulator = Plus(@, Min(frame_time, ClampTime)),
                      !.frame = [NewFrame("while") EXCEPT !.delta = frame_time]])

\* one pass of the body of the loop
LoopStep ==
    /\ frame.op = "while"
    /\ Abs(time_accumulator) >= dt
    /\ Becomes([ClockStep(State, frame.delta) EXCEPT
                   !.time_accumulator =
                       Plus(time_accumulator, -Sign(frame.delta) * dt)])

\* the test of the loop fails
LoopReturn ==
    /\ frame.op = "while"
    /\ Abs(time_accumulator) < dt
    /\ Becomes([State EXCEPT !.frame.op = "return"])

NextLoop == LoopBegin \/ LoopStep \/ LoopReturn

\* simulate runs to its end once called: the loop is synchronous code
SpecLoop ==
    Init /\ [][NextLoop]_vars /\ WF_vars(LoopStep) /\ WF_vars(LoopReturn)

---------------------------------------------------------------------------
(* The game followed to the game-won screen, with the host's call of        *)
(* display and the run of its body as two steps.  The host calls display    *)
(* for every animation frame, and the body, synchronous code, runs to its   *)
(* end.  Once the game is won and the host's timers have run out, the       *)
(* frames are short ones.                                                    *)

\* two short frame times that add up to dt
WonDeltas == {1, dt - 1}

\* the host calls display with animation_delta_time = delta
Called(delta) ==
    Becomes([State EXCEPT !.frame = [NewFrame("called") EXCEPT !.delta = delta]])

Arrive ==
    /\ frame.op # "called"
    /\ \E delta \in (IF /\ current_game_state = "YOU WIN"
                         /\ pitch_age > PitchDelay
                         /\ swing_age >= SwingTime
                      THEN WonDeltas ELSE FrameDeltas) : Called(delta)

\* the body of display, for the frame time it was called with
Run ==
    /\ frame.op = "called"
    /\ FrameOf({frame.delta}, Pitches, {10})

\* a key handler runs between two calls of display
StartWon ==
    /\ frame.op # "called"
    /\ StartGame

NextWon == Arrive \/ Run \/ StartWon

SpecWon ==
    Init /\ [][NextWon]_vars /\ WF_vars(Arrive) /\ []<>(frame.op # "called")

---------------------------------------------------------------------------
(* Properties                                                              *)

\* the balls among bodies
Balls(bs) == Cardinality({i \in 1..Len(bs) : bs[i].shape = "ball_4"})

\* the fixed steps of the last frame in which the first bounce was judged a
\* home run
HomeRuns == {k \in DOMAIN frame.steps : frame.steps[k].judged = "homerun"}

\* C1 (SpecSim): one call of simulate runs at most two fixed steps, however
\* long the frame time and whatever residue the accumulator held.
C1_AtMostTwoSteps == frame.op = "display" => Len(frame.steps) <= 2

\* C1, its case: a frame that found the largest residue ran two fixed steps
\* and left the largest residue again.
C1_TwoStepsFromResidue ==
    /\ frame.op = "display"
    /\ Len(frame.steps) = 2
    /\ time_accumulator = dt - 1

\* C2 (SpecBody): after an advance, previous holds the centre and the
\* rotation the body had before that advance, whatever the advance then did
\* to the current pose; emplace sets previous to the current pose; a change
\* of the velocities or a blend leaves previous alone.
C2_OneStepLag ==
    [][/\ frame'.op = "advance" =>
            /\ bodies'[1].previous.center = bodies[1].center
            /\ PreviousRotationOf(bodies'[1]) = RotationOf(bodies[1])
       /\ frame'.op = "emplace" =>
            /\ bodies'[1].previous.center = bodies'[1].center
            /\ PreviousRotationOf(bodies'[1]) = RotationOf(bodies'[1])
       /\ frame'.op \in {"push", "blend_state"} =>
            /\ bodies'[1].previous.center = bodies[1].previous.center
            /\ PreviousRotationOf(bodies'[1]) = PreviousRotationOf(bodies[1])]_vars

\* C2, its case: a second or later advance has moved and turned the body
\* away from the pose previous holds.
C2_Lagging ==
    /\ frame.op = "advance"
    /\ frame.n >= 2
    /\ bodies[1].previous.center # bodies[1].center
    /\ PreviousRotationOf(bodies[1]) # RotationOf(bodies[1])

\* C3 (SpecBody): blend_state draws the body with its size; at alpha = 0 at
\* the previous centre and rotation, at alpha = 1 at the current ones, and
\* at every alpha with the centre previous + alpha * (current - previous).
\* (alpha = frame.alpha / dt, and the drawn centre and rotation carry the
\* factor dt.)
C3_BlendEndpoints ==
    frame.op = "blend_state" =>
        LET b == bodies[1]
            drawn == b.drawn_location
        IN  /\ drawn.scale = b.size
            /\ frame.alpha = 0 =>
                  /\ drawn.center = VecTimes(b.previous.center, dt)
                  /\ drawn.rotation = VecTimes(PreviousRotationOf(b), dt)
            /\ frame.alpha = dt =>
                  /\ drawn.center = VecTimes(b.center, dt)
                  /\ drawn.rotation = VecTimes(RotationOf(b), dt)
            /\ \A i \in 1..3 :
                  drawn.center[i] = dt * b.previous.center[i]
                      + frame.alpha * (b.center[i] - b.previous.center[i])

\* C3, its case: a blend strictly between the two poses of a body that has
\* moved and turned.
C3_BlendBetween ==
    /\ frame.op = "blend_state"
    /\ frame.alpha > 0
    /\ frame.alpha < dt
    /\ bodies[1].previous.center # bodies[1].center
    /\ PreviousRotationOf(bodies[1]) # RotationOf(bodies[1])

\* C4 (SpecPitch): a fixed step judges the ball exactly when a hit ball
\* bounces for the first time; the verdict is a home run iff |x| < 150 and
\* |z| > 160 - |x| at the place of the bounce; the score grows by one per
\* home run and by nothing else; (0, 161) is a home run, (0, 159) and
\* (151, 200) are not.
C4_HomeRunRule ==
    /\ HomeRun(0, Length(161))
    /\ ~HomeRun(0, Length(159))
    /\ ~HomeRun(Length(151), Length(200))
    /\ frame.op = "display" =>
          /\ \A k \in DOMAIN frame.steps :
                LET ev == frame.steps[k]
                IN  /\ (ev.judged # "none") <=> (ev.hit /\ ev.bounce /\ ~ev.was_bounced)
                    /\ ev.judged # "none" =>
                          ((ev.judged = "homerun") <=>
                              /\ Abs(ev.at[1]) < 150 * LengthScale
                              /\ Abs(ev.at[2]) > 160 * LengthScale - Abs(ev.at[1]))
          /\ game_score = frame.at_pitch.score + Cardinality(HomeRuns)

\* C4, its case: a frame in which a first bounce was judged a home run.
C4_HomeRunJudged == frame.op = "display" /\ HomeRuns # {} /\ game_score > 0

\* C5 (Spec), as claimed: the game is over at level one only when exactly
\* ten balls, the budget, have been pitched.
C5_GameOverAfterTenPitches ==
    (current_game_state = "GAME OVER" /\ current_game_level = LevelOne)
        => PitchBudget - pitch_count = 10

\* C6 (Spec): a frame entered at level one with the target of 3 met and the
\* pitches exhausted leaves its progression checks at level two with score 0
\* and 10 pitches, and leaves the phase as it found it.
C6_LevelAdvance ==
    (/\ frame.op = "display"
     /\ frame.on_entry.level = LevelOne
     /\ frame.on_entry.score >= 3
     /\ frame.on_entry.pitch_count = -1)
        => /\ frame.at_pitch.level = LevelTwo
           /\ frame.at_pitch.score = 0
           /\ frame.at_pitch.pitch_count = 10
           /\ frame.at_pitch.state = frame.on_entry.state
           /\ current_game_state = frame.on_entry.state
           /\ current_game_level = LevelTwo

\* C6, its case: such a frame of a started game.
C6_Advanced ==
    /\ frame.op = "display"
    /\ frame.on_entry.level = LevelOne
    /\ frame.on_entry.score >= 3
    /\ frame.on_entry.pitch_count = -1
    /\ frame.on_entry.state = "STARTED"
    /\ current_game_state = "STARTED"

\* C7 (Spec), as claimed: the game is won only at level four.
C7_WonOnlyAtLevelFour ==
    current_game_state = "YOU WIN" => current_game_level = LevelFour

\* C7 (Spec), amended: the game never leaves levels one and two, and it is
\* won only at level two, with the target of 5 met and the pitches exhausted.
C7_WonOnlyAtLevelTwo ==
    /\ current_game_level \in {LevelOne, LevelTwo}
    /\ current_game_state = "YOU WIN" =>
          /\ current_game_level = LevelTwo
          /\ game_score >= 5
          /\ pitch_count = -1

\* C7, its case: a game won.
C7_Won == current_game_state = "YOU WIN" /\ current_game_level = LevelTwo

\* C8 (SpecPitch): no fixed step leaves a ball in bodies whose three
\* velocity components are all under 0.5, and a frame in which a ball was
\* retired at rest ends with the bat alone and both flags cleared.
C8_Settling ==
    /\ Len(bodies) > 1 =>
          \E i \in 1..3 : 2 * Abs(bodies[2].linear_velocity[i]) >= VelScale
    /\ (frame.op = "display" /\ \E k \in DOMAIN frame.steps : frame.steps[k].settle)
          => /\ Len(bodies) = 1
             /\ bodies[1].shape = "cylinder"
             /\ ~ball_hit
             /\ ~ball_bounced

\* C8, its case: a fixed step retired a hit, bounced ball at rest.
C8_Retired ==
    /\ frame.op = "display"
    /\ \E k \in DOMAIN frame.steps :
          /\ frame.steps[k].settle
          /\ frame.steps[k].was_hit
          /\ frame.steps[k].was_bounced

\* C9 (Spec): no body collides with itself, whatever the sample points say,
\* and a fixed step that starts with the bat alone and ball_hit false plays
\* no crack and leaves ball_hit false.
C9_NoSelfCollision ==
    /\ \A i \in 1..Len(bodies) : \A some \in BOOLEAN :
          ~check_if_colliding(bodies, i, i, some)
    /\ frame.op = "display" =>
          \A k \in DOMAIN frame.steps :
              (frame.steps[k].n < 2 /\ ~frame.steps[k].was_hit)
                  => (frame.steps[k].crack = 0 /\ ~frame.steps[k].hit)

\* C9, its case: a frame ran a fixed step with the bat alone in bodies.
C9_BatAlone ==
    /\ frame.op = "display"
    /\ \E k \in DOMAIN frame.steps : frame.steps[k].n = 1
    /\ Len(bodies) = 1
    /\ ~ball_hit

\* C10 (Spec): only a display frame that pitches adds a ball to bodies; a
\* frame pitches only when, at its decision, bodies holds fewer than two
\* bodies, the phase is STARTED, pitch_count > -1 and more than 2 seconds
\* have passed since pitch_timer; a pitch takes exactly 1 from pitch_count
\* and a frame without a pitch takes nothing.
C10_PitchGuard ==
    [][/\ Balls(bodies') > Balls(bodies) => (frame'.op = "display" /\ frame'.spawned)
       /\ frame'.op = "display" =>
            /\ frame'.spawned =>
                  /\ frame'.at_pitch.n < 2
                  /\ frame'.at_pitch.state = "STARTED"
                  /\ frame'.at_pitch.pitch_count > -1
                  /\ frame'.at_pitch.pitch_age > 2 * 1000 * TimeScale
                  /\ pitch_count' = frame'.at_pitch.pitch_count - 1
            /\ ~frame'.spawned => pitch_count' = frame'.at_pitch.pitch_count]_vars

\* C10, its case: the frame that pitched the last ball the guard allows.
C10_LastPitch ==
    /\ frame.op = "display"
    /\ frame.spawned
    /\ Balls(bodies) = 1
    /\ pitch_count = -1

\* the fixed steps of a frame in which a ball left bodies: beyond the
\* distance limit, or at rest
Retirements(f) == {k \in DOMAIN f.steps : f.steps[k].far \/ f.steps[k].settle}

\* C11 (Spec), as claimed: a frame that pitches right after a frame in which
\* the previous ball was retired, hit or missed, comes at least 2 seconds
\* after it.
C11_PitchDelay ==
    [][(/\ frame.op = "display"
        /\ Retirements(frame) # {}
        /\ frame'.op = "display"
        /\ frame'.spawned) => frame'.delta >= PitchDelay]_vars

\* C12 (Spec), as claimed: a fixed step that starts with ball_hit false and
\* detects the ball and the bat colliding ends its collision loop with
\* ball_hit true, having played the crack cue exactly once; the ball's
\* angular velocity is 0; a fixed step that starts with ball_hit true plays
\* no crack.
C12_CrackOnce ==
    frame.op = "display" =>
        /\ \A k \in DOMAIN frame.steps :
              /\ (~frame.steps[k].was_hit /\ frame.steps[k].crack > 0)
                    => (frame.steps[k].hit /\ frame.steps[k].crack = 1)
              /\ frame.steps[k].was_hit => frame.steps[k].crack = 0
        /\ Len(bodies) > 1 => bodies[2].angular_velocity = 0

\* the bodies a frame's k-th fixed step left in bodies
LeftBy(k) == IF k < Len(frame.steps) THEN frame.steps[k + 1].n ELSE Len(bodies)

\* C13 (SpecPitch): a fixed step that starts with a ball removes it by
\* distance exactly when its centre is at a norm of 300 or more with ball_hit
\* true at the filter, or of 40 or more with ball_hit false; the ball it
\* removes is absent at the end of the step, and a ball it neither removes
\* nor retires at rest is still in bodies.
C13_RetireByDistance ==
    frame.op = "display" =>
        \A k \in DOMAIN frame.steps :
            LET ev == frame.steps[k]
                limit == IF ev.hit THEN 300 ELSE 40
            IN  ev.n > 1 =>
                  /\ ev.far <=> ~NormLess(ev.where, limit * LengthScale)
                  /\ ev.far => LeftBy(k) = 1
                  /\ (~ev.far /\ ~ev.settle) => LeftBy(k) = 2

\* C13, its case: a hit ball still in flight was removed at the limit of 300.
C13_HitBallFar ==
    /\ frame.op = "display"
    /\ \E k \in DOMAIN frame.steps :
          /\ frame.steps[k].far
          /\ frame.steps[k].hit
          /\ ~frame.steps[k].settle
    /\ Len(bodies) = 1

\* bodies holds the bat first and after it at most one body, a ball
BatFirst(bs) ==
    /\ Len(bs) \in {1, 2}
    /\ bs[1].shape = "cylinder"
    /\ Len(bs) = 2 => bs[2].shape = "ball_4"

\* C14 (SpecBat): every display frame ends with the bat at the head of
\* bodies and any ball right after it, and so does every fixed step after
\* the first frame; no frame and no Batter L / Batter R key takes that away.
C14_BatPersists ==
    [][/\ frame'.op = "display" =>
            /\ BatFirst(bodies')
            /\ \A k \in DOMAIN frame'.steps : frame'.steps[k].n \in {1, 2}
       /\ BatFirst(bodies) => BatFirst(bodies')]_vars

\* C14, its case: the batter has moved and a frame that retired a ball has
\* left the bat.
C14_BatOutlivesBall ==
    /\ frame.op = "display"
    /\ Retirements(frame) # {}
    /\ batter_x # -8
    /\ BatFirst(bodies)

\* the simulated state: of every body its shape, centre, rotation and
\* velocities, and the flags and the score
Simulated(s) ==
    [bodies |-> [i \in 1..Len(s.bodies) |->
                    [shape |-> s.bodies[i].shape,
                     center |-> s.bodies[i].center,
                     rotation |-> RotationOf(s.bodies[i]),
                     linear_velocity |-> s.bodies[i].linear_velocity,
                     angular_velocity |-> s.bodies[i].angular_velocity]],
     ball_hit |-> s.ball_hit, ball_bounced |-> s.ball_bounced,
     game_score |-> s.game_score]

\* s with every body drawn as blend_state draws it at alpha = a / dt
Redrawn(s, a) ==
    [s EXCEPT !.bodies = [i \in 1..Len(s.bodies) |-> blend_state(s.bodies[i], a)]]

\* C15 (SpecPitch), as claimed: a fixed step leaves the same simulated state
\* whichever of the poses between the previous and the current one the
\* bodies are drawn at, for the same outcome of the sample-point test.
C15_DrawnNotRead ==
    \A a \in 0 .. (dt - 1) : \A in \in Touches(10) :
        Simulated(update_state(Redrawn(State, a), dt, in))
            = Simulated(update_state(State, dt, in))

\* C16 (SpecSim), as claimed: a display frame changes the clock only in
\* simulate: steps_taken and t grow by the fixed steps simulate ran and the
\* accumulator by one clamped frame time less those steps; a key handler
\* changes none of the three.
C16_ClockOwnedBySimulate ==
    [][/\ (frame'.op = "display" /\ steps_taken' < MaxClock) =>
            /\ steps_taken' = steps_taken + Len(frame'.steps)
            /\ t' = t + dt * Len(frame'.steps)
            /\ time_accumulator' = time_accumulator + Min(frame'.delta, ClampTime)
                                        - dt * Len(frame'.steps)
       /\ frame'.op # "display" =>
            /\ steps_taken' = steps_taken
            /\ t' = t
            /\ time_accumulator' = time_accumulator]_vars

\* C17 (SpecKeys): applied to a list of fewer than two bodies, whatever the
\* sample points say and whether or not ball_hit is set, update_state
\* evaluates without touching a second body and leaves the bodies, their
\* velocities, the flags and the score as they were; and no fixed step a
\* frame ran on such a list took a branch of the ball block.
C17_GuardedBall ==
    /\ Len(bodies) < 2 =>
          \A in \in Touches(10) \cup {Quiet(10)} :
              Simulated(update_state(State, dt, in)) = Simulated(State)
    /\ frame.op = "display" =>
          \A k \in DOMAIN frame.steps :
              frame.steps[k].n < 2 =>
                  /\ ~frame.steps[k].launch
                  /\ ~frame.steps[k].bounce
                  /\ frame.steps[k].judged = "none"
                  /\ ~frame.steps[k].far
                  /\ ~frame.steps[k].settle
                  /\ LeftBy(k) = frame.steps[k].n

\* C17, its case: a frame ran a fixed step on the bat alone with ball_hit
\* set, and left both as they were.
C17_IdleAndHit ==
    /\ frame.op = "display"
    /\ \E k \in DOMAIN frame.steps : frame.steps[k].n = 1 /\ frame.steps[k].was_hit
    /\ Len(bodies) = 1
    /\ ball_hit

\* the fixed steps simulate runs for a frame time, from the residue acc
StepsFor(acc, frame_time) == (acc + Min(frame_time, ClampTime)) \div dt

\* C19 (Spec), as claimed: the clock follows from the frame times alone: the
\* fixed steps by which a frame of a game that was started advances t and
\* steps_taken are those simulate runs for its frame time, whatever was
\* pitched, hit or scored before.
C19_ClockFromFrameTimes ==
    [][(frame'.op = "display" /\ frame'.on_entry.state # "NOT STARTED") =>
            Len(frame'.steps) + frame'.title_steps
                = StepsFor(time_accumulator, frame'.delta)]_vars

\* C20 (SpecLoop), as claimed: from every residue below dt and for every
\* frame time, positive, zero or negative, the loop of simulate comes to its
\* end: every pass brings the accumulator, which alone decides the test of
\* the loop, nearer to zero, and the loop is left with an accumulator below
\* dt in magnitude.
C20_LoopTerminates ==
    [][/\ (frame.op = "while" /\ frame'.op = "while") =>
            Abs(time_accumulator') < Abs(time_accumulator)
       /\ frame'.op = "return" => Abs(time_accumulator') < dt]_vars

\* C21 (SpecSim): every call of simulate blends every body at an alpha
\* within [0, 1]: the accumulator it divides by dt lies from 0 to dt, and
\* each body is drawn as blend_state draws it at that alpha.
C21_AlphaInRange ==
    frame.op = "display" =>
        /\ time_accumulator >= 0
        /\ time_accumulator <= dt
        /\ \A i \in 1..Len(bodies) :
              bodies[i].drawn_location
                  = blend_state(bodies[i], time_accumulator).drawn_location

\* C21, its case: a frame ran one fixed step and blended the bat and a ball
\* strictly between their two poses.
C21_BlendedBetween ==
    /\ frame.op = "display"
    /\ Len(frame.steps) = 1
    /\ time_accumulator > 0
    /\ time_accumulator < dt
    /\ Len(bodies) = 2

\* C22 (SpecSim), as claimed: every display frame adds exactly one clamped
\* frame time min(frame_time, 0.1) to t + time_accumulator, so that the sum
\* equals the clamped frame times so far, and t = dt * steps_taken.
C22_TimeConserved ==
    [][(frame'.op = "display" /\ steps_taken' < MaxClock) =>
            /\ t' + time_accumulator'
                   = t + time_accumulator + Min(frame'.delta, ClampTime)
            /\ t' = dt * steps_taken']_vars

\* a body placed again where it stands, with the velocities it has
Replaced(b) ==
    emplace(b, Pose(b.center, RotationOf(b), UnitScale),
            b.linear_velocity, b.angular_velocity)

\* previous and current state of a body are equal
AtRest(b) ==
    /\ b.previous.center = b.center
    /\ PreviousRotationOf(b) = RotationOf(b)

\* C23 (SpecBat): emplace leaves a body with previous state equal to its
\* current state, so that blend_state draws the same pose at every alpha;
\* the bat, placed again in every display frame with zero velocity, has
\* previous and current state equal at every tick, before and after advance.
C23_PlacementResetsHistory ==
    \A i \in 1..Len(bodies) :
        /\ AtRest(Replaced(bodies[i]))
        /\ \A a \in 0..dt :
              blend_state(Replaced(bodies[i]), a).drawn_location
                  = Drawn(bodies[i].center, RotationOf(bodies[i]), bodies[i].size)
        /\ bodies[i].shape = "cylinder" =>
              /\ AtRest(bodies[i])
              /\ AtRest(advance(bodies[i], dt))
              /\ bodies[i].linear_velocity = Zero
              /\ bodies[i].angular_velocity = 0

\* C23, its case: the batter has stepped aside, the bat stands at the new
\* place, and a ball is in flight whose previous centre is not its centre.
C23_BatMovedBallFlying ==
    /\ frame.op = "display"
    /\ batter_x # -8
    /\ Len(bodies) = 2
    /\ bodies[1].center = BatPose(batter_x).center
    /\ ~AtRest(bodies[2])

\* linear_velocity.times(time_amount), in length units
Displacement(v, time_amount) == [i \in 1..3 |-> Trunc(v[i], time_amount, StepDivisor)]

\* n calls of advance(dt) with nothing between them
RECURSIVE Advanced(_, _)
Advanced(b, n) == IF n = 0 THEN b ELSE Advanced(advance(b, dt), n - 1)

\* C24 (SpecBody): advance(time_amount) moves the centre by the velocity held
\* at the call times time_amount and leaves linear velocity, angular
\* velocity, size and shape as they were; from the body it is called on, n
\* advances of dt with the velocity untouched move the centre by exactly
\* n * dt * velocity.
C24_ForwardEuler ==
    [][frame'.op = "advance" =>
            /\ \E time_amount \in AdvanceTimes :
                   bodies'[1].center
                       = VecPlus(bodies[1].center,
                                 Displacement(bodies[1].linear_velocity, time_amount))
            /\ bodies'[1].linear_velocity = bodies[1].linear_velocity
            /\ bodies'[1].angular_velocity = bodies[1].angular_velocity
            /\ bodies'[1].size = bodies[1].size
            /\ bodies'[1].shape = bodies[1].shape
            /\ \A n \in 0..MaxAdvances :
                  /\ Advanced(bodies[1], n).center
                         = VecPlus(bodies[1].center,
                                   Displacement(bodies[1].linear_velocity, n * dt))
                  /\ Advanced(bodies[1], n).linear_velocity
                         = bodies[1].linear_velocity]_vars

\* C24, its case: a body thrown sideways and downward has been advanced
\* MaxAdvances times by dt at that one velocity.
C24_ThreeSteps ==
    /\ frame.op = "advance"
    /\ frame.n = MaxAdvances
    /\ bodies[1].linear_velocity = <<-300, 900, -6100>>
    /\ bodies[1].center
           = VecPlus(BallPose.center, VecTimes(<<-300, 900, -6100>>, MaxAdvances))

\* dt * 9.8, the speed one fixed step of gravity takes from the y-velocity
Fall == Trunc(98 * dt, VelScale, 10 * TimeScale)

\* the fixed steps of this frame that found a ball and had ball_hit set
\* after the collision block
HitSteps(f) == {k \in DOMAIN f.steps : f.steps[k].n > 1 /\ f.steps[k].hit}

\* C25 (SpecPitch): in every fixed step with a ball and ball_hit set, if the
\* ball's z-velocity is positive the velocity after the gravity line is
\* x = (center.z + 1) * 5, y = y + boost - dt * 9.8 for a whole boost in
\* 10..30, z = -min(3.6, 3 |center.z|) * z; if it is not positive the launch
\* assigns nothing and the velocity after the gravity line is the old one
\* with dt * 9.8 taken from y.
C25_LaunchRecurrence ==
    frame.op = "display" =>
        \A k \in HitSteps(frame) :
            LET v == frame.steps[k].thrown
                z == frame.steps[k].where[3]
                w == frame.steps[k].fell
            IN  /\ frame.steps[k].launch <=> v[3] > 0
                /\ v[3] > 0 =>
                      /\ w[1] = Trunc(z, 5 * VelScale, LengthScale) + Velocity(5)
                      /\ \E boost \in 10..30 : w[2] = v[2] + Velocity(boost) - Fall
                      /\ w[3] = IF 3 * Abs(z) >= Trunc(36, LengthScale, 10)
                                THEN -Trunc(v[3], 36, 10)
                                ELSE -Trunc(v[3], 3 * Abs(z), LengthScale)
                /\ v[3] <= 0 => w = <<v[1], v[2] - Fall, v[3]>>

\* C25, its case: a frame whose first fixed step launched the ball at the
\* full factor 3.6 with boost 20 and whose second found it flying away and
\* applied gravity alone.
C25_LaunchThenGravity ==
    /\ frame.op = "display"
    /\ Len(frame.steps) = 2
    /\ HitSteps(frame) = {1, 2}
    /\ frame.steps[1].launch
    /\ frame.steps[1].fell[2] = frame.steps[1].thrown[2] + Velocity(20) - Fall
    /\ frame.steps[1].fell[3] = -Trunc(frame.steps[1].thrown[3], 36, 10)
    /\ ~frame.steps[2].launch
    /\ frame.steps[2].thrown = frame.steps[1].fell

\* C26 (SpecPitch): the launch branch runs in the fixed step in which the
\* ball is first found hit, and in no other: a step that finds a ball newly
\* hit launches it, a step that launches finds it newly hit, and from then
\* on, at every later step and after every frame, the hit ball's z-velocity
\* is at most 0, so that no later step launches it or adds a boost.
C26_LaunchOnce ==
    /\ (ball_hit /\ Len(bodies) = 2) => bodies[2].linear_velocity[3] <= 0
    /\ frame.op = "display" =>
          \A k \in DOMAIN frame.steps :
              LET ev == frame.steps[k]
              IN  /\ ev.launch <=> (ev.n > 1 /\ ev.hit /\ ~ev.was_hit)
                  /\ ev.launch => ev.fell[3] <= 0
                  /\ (ev.n > 1 /\ ev.was_hit) =>
                        /\ ev.hit
                        /\ ev.thrown[3] <= 0
                        /\ ev.fell = <<ev.thrown[1], ev.thrown[2] - Fall, ev.thrown[3]>>
                  /\ (ev.n > 1 /\ ev.hit /\ ~ev.far /\ ~ev.settle) =>
                        IF k < Len(frame.steps)
                        THEN frame.steps[k + 1].n > 1 /\ frame.steps[k + 1].was_hit
                        ELSE ball_hit /\ Len(bodies) = 2

\* C26, its case: a ball launched in an earlier frame has bounced and is
\* still in play, flying away from the batter.
C26_FliesAwayAfterBounce ==
    /\ frame.op = "display"
    /\ \E k \in DOMAIN frame.steps :
          /\ frame.steps[k].n > 1
          /\ frame.steps[k].was_hit
          /\ frame.steps[k].was_bounced
          /\ frame.steps[k].thrown[3] < 0
    /\ ball_hit
    /\ Len(bodies) = 2

\* the most fixed steps an unhit ball stays within the distance limit
MaxFlight == 200

\* the linear velocity of the ball when fixed step k of this frame is over
\* and the ball is still there
VelocityAfter(k) ==
    IF k < Len(frame.steps) THEN frame.steps[k + 1].thrown
    ELSE bodies[2].linear_velocity

\* C27 (SpecPitch): a fixed step that finds a ball and leaves ball_hit false
\* applies no launch, gravity or damping: the ball keeps the velocity it
\* entered with, which is its spawn velocity (y = 0, z the pitch speed), its
\* centre lies on the straight line from the spawn point at whole multiples
\* of that velocity, and it is retired exactly when its centre is 40 or more
\* from the origin.
C27_NoForcesBeforeHit ==
    frame.op = "display" =>
        \A k \in DOMAIN frame.steps :
            LET ev == frame.steps[k]
            IN  (ev.n > 1 /\ ~ev.hit) =>
                    /\ ~ev.launch /\ ~ev.bounce /\ ~ev.settle
                    /\ ev.judged = "none"
                    /\ ev.thrown[2] = 0
                    /\ ev.thrown[3] \in {Velocity(speed) : speed \in 10..17}
                    /\ \E m \in 0..MaxFlight :
                          ev.where = VecPlus(BallPose.center, VecTimes(ev.thrown, m))
                    /\ ev.far <=> ~NormLess(ev.where, Length(40))
                    /\ LeftBy(k) = IF ev.far THEN 1 ELSE 2
                    /\ ~ev.far => VelocityAfter(k) = ev.thrown

\* C27, its case: a ball nobody hit has passed the batter at its spawn
\* velocity and the distance limit retires it.
C27_MissedBallRetired ==
    /\ frame.op = "display"
    /\ \E k \in DOMAIN frame.steps :
          /\ frame.steps[k].n > 1
          /\ ~frame.steps[k].hit
          /\ frame.steps[k].far
          /\ frame.steps[k].where[3] > BatPose(-8).center[3]
          /\ frame.steps[k].thrown[3] = Velocity(17)

\* C28 (SpecPitch): a fixed step with a hit ball bounces exactly when the
\* ball's centre is under y = -9.7 and its y-velocity after gravity is
\* negative; the bounce scales the velocity after gravity by 0.6, -0.6 and
\* 0.6, leaving the y-velocity non-negative; the judgment with its cue is
\* made in the bounce that finds ball_bounced false and in no other step,
\* and ball_bounced stays set while the ball is in play.
C28_BounceDamping ==
    /\ \A i \in 1..Len(bodies) : bodies[i].shape = "ball_4" => bodies[i].angular_velocity = 0
    /\ frame.op = "display" =>
          \A k \in HitSteps(frame) :
              LET ev == frame.steps[k]
              IN  /\ ev.bounce <=> (ev.where[2] < Floor /\ ev.fell[2] < 0)
                  /\ ev.bounce =>
                        /\ ev.damped = <<Trunc(ev.fell[1], 6, 10), -Trunc(ev.fell[2], 6, 10),
                                         Trunc(ev.fell[3], 6, 10)>>
                        /\ ev.damped[2] >= 0
                  /\ (ev.judged # "none") <=> (ev.bounce /\ ~ev.was_bounced)
                  /\ ((ev.bounce \/ ev.was_bounced) /\ ~ev.far /\ ~ev.settle) =>
                        IF k < Len(frame.steps) THEN frame.steps[k + 1].was_bounced
                        ELSE ball_bounced

\* C28, its case: a ball already judged bounces again; the bounce is damped
\* and passes without a judgment.
C28_SecondBounce ==
    /\ frame.op = "display"
    /\ \E k \in HitSteps(frame) :
          /\ frame.steps[k].bounce
          /\ frame.steps[k].was_bounced
          /\ frame.steps[k].judged = "none"
          /\ frame.steps[k].damped[2] > 0

\* every pair of draws a pitch can make
DrawnPitches == [speed : getRandomInt(10, 18), xy : getRandomInt(-2, 3)]

\* the ball a pitch adds when the next frame, a second later, pitches
Pitched(pitch) == SpawnBall(Prepare(State, Millis(1000)), pitch).bodies[2]

\* C29 (SpecPitch): a ball is spawned with linear velocity
\* (0.4 + 0.3 k, 0, s) for whole k in -2..2 and whole s in 10..17 and with
\* angular velocity 0, for every pair of draws the pitch can make; its
\* z-velocity is positive and its y-velocity is 0.
C29_PitchVelocity ==
    /\ (frame.op = "display" /\ frame.spawned) =>
          /\ Len(bodies) = 2
          /\ bodies[2].linear_velocity[3] > 0
          /\ bodies[2].linear_velocity[2] = 0
    /\ CanPitch(Prepare(State, Millis(1000))) =>
          \A pitch \in DrawnPitches :
              /\ Pitched(pitch).shape = "ball_4"
              /\ Pitched(pitch).angular_velocity = 0
              /\ \E k \in -2..2, speed \in 10..17 :
                    Pitched(pitch).linear_velocity
                        = <<Trunc(4, VelScale, 10) + k * Trunc(3, VelScale, 10),
                            0, Velocity(speed)>>
              /\ Pitched(pitch).linear_velocity[3] > 0
              /\ Pitched(pitch).linear_velocity[2] = 0

\* C29, its case: the frame has just pitched the fastest ball at the
\* leftmost draw, k = -2 and s = 17.
C29_FastLeftPitch ==
    /\ frame.op = "display"
    /\ frame.spawned
    /\ Len(bodies) = 2
    /\ bodies[2].linear_velocity = <<Trunc(4, VelScale, 10) - 2 * Trunc(3, VelScale, 10),
                                     0, Velocity(17)>>
    /\ bodies[2].angular_velocity = 0
    /\ bodies[2].previous.center = BallPose.center

\* C30 (SpecWon), as claimed: while display frames with positive frame time
\* keep arriving, a ball among the bodies is eventually removed, and then
\* ball_hit and ball_bounced are false.
C30_BallRetired ==
    (Len(bodies) = 2) ~> (Len(bodies) < 2 /\ ~ball_hit /\ ~ball_bounced)

\* C31 (Spec): bodies never holds more than two bodies nor more than one
\* ball, no fixed step finds more than two, and a frame that pitches found
\* fewer than two bodies, none of them a ball, when it decided to pitch.
C31_AtMostOneBall ==
    /\ Len(bodies) <= 2
    /\ Balls(bodies) <= 1
    /\ Len(bodies) = 2 => (bodies[1].shape = "cylinder" /\ bodies[2].shape = "ball_4")
    /\ frame.op = "display" =>
          /\ \A k \in DOMAIN frame.steps : frame.steps[k].n <= 2
          /\ frame.spawned =>
                /\ frame.at_pitch.n = 1
                /\ frame.on_entry.n <= 1

\* C31, its case: a later ball of the game has just been pitched into a
\* list that held the bat alone.
C31_NextBallPitched ==
    /\ frame.op = "display"
    /\ frame.spawned
    /\ frame.at_pitch.n = 1
    /\ pitch_count < PitchBudget - 1
    /\ Balls(bodies) = 1

\* C32 (Spec): pitch_count stays within -1..10, and a step changes it only
\* by taking 1 in a frame that pitches or by setting it to 10 in a frame
\* that advances the level or at the Restart key.
C32_PitchCountRange ==
    [][/\ pitch_count \in -1..10
       /\ pitch_count' \in -1..10
       /\ pitch_count' # pitch_count =>
            \/ /\ frame'.op = "display"
               /\ frame'.spawned
               /\ pitch_count' = pitch_count - 1
            \/ /\ frame'.op = "display"
               /\ ~frame'.spawned
               /\ current_game_level' = current_game_level + 1
               /\ pitch_count' = 10
            \/ /\ frame'.op = "Restart Game"
               /\ pitch_count' = 10]_vars

\* C32, its case: the second level is under way with its budget partly
\* used, after the first level ran its count down to -1 and the advance set
\* it back to 10.
C32_SecondLevelCount ==
    /\ current_game_level = LevelTwo
    /\ frame.op = "display"
    /\ frame.spawned
    /\ pitch_count = 4

\* C33 (SpecKeys), as claimed: after every display frame a list without a
\* ball goes with ball_hit and ball_bounced false, and the first fixed step
\* of a ball pitched in the frame finds ball_hit false.
C33_IdleMeansNotHit ==
    frame.op = "display" =>
        /\ Balls(bodies) = 0 => (~ball_hit /\ ~ball_bounced)
        /\ (frame.spawned /\ frame.steps # <<>>) => ~frame.steps[1].was_hit

\* the fixed steps of a frame that judged a bounce, and those that scored
Judged(f) == {k \in DOMAIN f.steps : f.steps[k].judged # "none"}
Scored(f) == {k \in DOMAIN f.steps : f.steps[k].judged = "homerun"}

\* C34 (Spec): a frame judges at most one bounce, that of a ball not yet
\* judged, and none while the ball in play carries ball_bounced from an
\* earlier frame; a judged ball still in play carries ball_bounced on; the
\* score after a frame is the score its progression checks left (the old
\* score, or 0 where the level advanced) plus 1 if the judgment was a home
\* run; Restart sets the score to 0 and no other key changes it.
C34_OneJudgmentPerBall ==
    [][/\ frame'.op = "display" =>
            /\ Cardinality(Judged(frame')) <= 1
            /\ \A k \in Judged(frame') :
                  /\ frame'.steps[k].n = 2
                  /\ ~frame'.steps[k].was_bounced
            /\ ball_bounced => (Balls(bodies) = 1 /\ Judged(frame') = {})
            /\ (Judged(frame') # {} /\ Retirements(frame') = {}) => ball_bounced'
            /\ frame'.at_pitch.score =
                  IF frame'.at_pitch.level # current_game_level THEN 0 ELSE game_score
            /\ game_score' = frame'.at_pitch.score + Cardinality(Scored(frame'))
       /\ frame'.op = "Restart Game" => game_score' = 0
       /\ frame'.op \notin {"display", "Restart Game"} => game_score' = game_score]_vars

\* C34, its case: a ball that has scored is still bouncing, and a frame
\* with a further bounce has passed without a judgment.
C34_ScoredBallStillBouncing ==
    /\ frame.op = "display"
    /\ ball_bounced
    /\ Balls(bodies) = 1
    /\ game_score >= 1
    /\ Judged(frame) = {}
    /\ \E k \in DOMAIN frame.steps : frame.steps[k].bounce

\* C35 (Spec), as claimed for display frames: a frame entered in the phase
\* GAME OVER or YOU WIN leaves current_game_level, game_score, pitch_count
\* and the phase as they were.
C35_TerminalFrozen ==
    [][(current_game_state \in {"GAME OVER", "YOU WIN"} /\ frame'.op = "display") =>
            /\ current_game_state' = current_game_state
            /\ current_game_level' = current_game_level
            /\ game_score' = game_score
            /\ pitch_count' = pitch_count]_vars

\* C36 (Spec), as claimed: a display frame that takes a progression decision
\* (the phase becomes GAME OVER or YOU WIN, or the level changes) is entered
\* with no ball in play, so the level's last ball has been judged before the
\* score is compared with the target.
C36_LastPitchCounts ==
    [][(/\ frame'.op = "display"
        /\ \/ current_game_level' # current_game_level
           \/ current_game_state' # current_game_state) =>
            frame'.on_entry.n = 1]_vars

\* the fixed steps of frame f in which a hit ball left the list of bodies
HitRetirements(f) ==
    {k \in DOMAIN f.steps :
        f.steps[k].n = 2 /\ f.steps[k].hit /\ (f.steps[k].far \/ f.steps[k].settle)}

\* C37 (Spec): the camera selection is 0 or 1 in every state; a fixed step
\* in which a hit ball is removed from bodies, by the distance filter or by
\* coming to rest, issues at least one Camera_Teleporter.decrease, and the
\* frame of such a step ends with selection 0.
C37_CameraStepsBack ==
    /\ selection \in {0, 1}
    /\ frame.op = "display" =>
          /\ \A k \in HitRetirements(frame) : frame.steps[k].decrease >= 1
          /\ HitRetirements(frame) # {} => selection = 0

C37_HomeRunLeftThePark ==
    /\ frame.op = "display"
    /\ current_game_state = "STARTED"
    /\ \E k \in HitRetirements(frame) :
          frame.steps[k].far /\ frame.steps[k].was_hit /\ frame.steps[k].decrease = 1
    /\ selection = 0

\* C38 (SpecSwing): a Swing key press during a swing changes nothing, and
\* outside a swing it only raises toggle_swing; toggle_swing is never up
\* during a swing; a display frame restarts the swing clock only when it is
\* entered with toggle_swing up (and so with swing_bat down), and then the
\* swing begins; every other frame lets the clock run on, and a swing is
\* over after exactly the first frame that finds the clock at pi/4 seconds
\* or more.
C38_SwingNotRestarted ==
    [][/\ toggle_swing => ~swing_bat
       /\ frame'.op = "Swing" =>
            /\ toggle_swing' = (toggle_swing \/ ~swing_bat)
            /\ [State EXCEPT !.frame = frame', !.toggle_swing = toggle_swing'] = State'
       /\ frame'.op = "display" =>
            IF toggle_swing
            THEN ~swing_bat /\ swing_age' = 0 /\ swing_bat' /\ ~toggle_swing'
            ELSE /\ swing_age' = Age(swing_age, frame'.delta, SwingTime)
                 /\ ~toggle_swing'
                 /\ swing_bat' = (swing_bat /\ swing_age' < SwingTime)]_vars

C38_MidSwingPress ==
    /\ frame.op = "Swing"
    /\ swing_bat
    /\ 0 < swing_age /\ swing_age < SwingTime
    /\ ~toggle_swing

\* C39 (Spec): a Restart Game press sets the phase to STARTED, the level to
\* 1, game_target to 3, game_score to 0 and pitch_count to 10, and leaves
\* bodies, ball_hit, ball_bounced, the pitch timer, the simulation clock and
\* the batter, swing and camera fields as they were; a Start Game press
\* changes the phase to STARTED and nothing else.
C39_RestartResetsProgression ==
    [][/\ frame'.op = "Restart Game" =>
            /\ current_game_state' = "STARTED"
            /\ current_game_level' = 1
            /\ game_target' = 3
            /\ game_score' = 0
            /\ pitch_count' = 10
            /\ UNCHANGED <<bodies, ball_hit, ball_bounced, pitch_time, pitch_age,
                           time_accumulator, t, steps_taken, batter_x,
                           toggle_swing, swing_bat, swing_age, selection, enabled>>
       /\ frame'.op = "Start Game" =>
            /\ current_game_state' = "STARTED"
            /\ [State EXCEPT !.frame = frame',
                             !.current_game_state = "STARTED"] = State']_vars

C39_RestartWithBallInFlight ==
    /\ frame.op = "Restart Game"
    /\ Len(bodies) = 2
    /\ ball_hit
    /\ ball_bounced
    /\ steps_taken > 0
    /\ pitch_count = 10
    /\ game_score = 0

=============================================================================
